---- MODULE Spec2Model ----
(***************************************************************************)
(* State-machine model of TestAutomationAgent.execute() in                 *)
(* .github/scripts/impact_generated.py: impact analysis of a change set,   *)
(* risk scoring, test-plan derivation and the bounded run/heal loop.       *)
(*                                                                         *)
(* Strings are modelled as sequences of tokens.  The tokens are chosen so  *)
(* that no token is a substring of another one, hence token-wise           *)
(* containment, replacement and suffix tests coincide with the character   *)
(* level operations of the Python code on the paths used here.             *)
(***************************************************************************)
EXTENDS Integers, Sequences, FiniteSets, TLC

(* ----------------------------- bounds --------------------------------- *)

\* number of indexed source files in the impact-analysis specification
NumFiles == 4
\* number of indexed source files in the full pipeline specification
LoopFiles == 2

(* ------------------------ program constants --------------------------- *)

\* impact_generated.py:473
max_retries == 2
\* impact_generated.py:445
RIPPLE_THRESHOLD == 10

SRC_DIR == "src/main/java"
TEST_DIR == "src/test/java"
SEP == "/"
JAVA == ".java"

(* ----------------------------- strings -------------------------------- *)

\* str.endswith(suffix) for a one-token suffix
EndsWith(s, tok) == Len(s) > 0 /\ s[Len(s)] = tok

\* str.startswith(prefix)
StartsWith(s, pre) == Len(s) >= Len(pre) /\ SubSeq(s, 1, Len(pre)) = pre

\* `sub in s` for strings: sub occurs as a contiguous piece of s
Contains(sub, s) ==
    \E k \in 0..(Len(s) - Len(sub)) : SubSeq(s, k + 1, k + Len(sub)) = sub

\* str.replace(old, new) for a one-token old: every occurrence is replaced
RECURSIVE Replace(_, _, _)
Replace(s, old, new) ==
    IF s = <<>> THEN <<>>
    ELSE (IF Head(s) = old THEN new ELSE <<Head(s)>>) \o Replace(Tail(s), old, new)

\* position of the last path separator, 0 when there is none
LastSep(p) ==
    IF \E k \in 1..Len(p) : p[k] = SEP
    THEN CHOOSE k \in 1..Len(p) : p[k] = SEP /\ \A j \in (k + 1)..Len(p) : p[j] # SEP
    ELSE 0

\* os.path.basename
basename(p) == SubSeq(p, LastSep(p) + 1, Len(p))

ExtTokens == {".java", ".md"}

\* os.path.splitext(s)[0]
splitext(s) == IF Len(s) > 1 /\ s[Len(s)] \in ExtTokens THEN SubSeq(s, 1, Len(s) - 1) ELSE s

get_class_name(file_path) == splitext(basename(file_path))

\* str(list): the printed list is bracketed, it is never the text of a path
StrOfList(l) == <<"[">> \o (IF l = <<>> THEN <<>> ELSE l[1]) \o <<"]">>

get_test_path(source_path) ==
    Replace(Replace(source_path, SRC_DIR, <<TEST_DIR>>), JAVA, <<"Test", JAVA>>)

(* --------------------------- the work tree ----------------------------- *)

SrcPath(name) == <<SRC_DIR, SEP>> \o name \o <<JAVA>>

\* candidate source files, in the order of the diff listing (sorted by path)
SourceNames ==
    << <<"Alpha">>, <<"Beta">>, <<"Beta", "Dto">>, <<"Delta">>, <<"Gamma">>, <<"Omega">> >>

IndexPaths(n) == [k \in 1..n |-> SrcPath(SourceNames[k])]

\* a changed file that was deleted by the change: listed by the diff, not on disk
GonePath == SrcPath(<<"Zeta">>)
\* a changed file under the test root: on disk, outside SRC_DIR
ChangedTestPath == <<TEST_DIR, SEP, "Helper", JAVA>>
\* a changed file that is not a java file
ReadmePath == <<"README", ".md">>

Range(s) == {s[k] : k \in 1..Len(s)}

AllWords(n) == {get_class_name(p) : p \in Range(IndexPaths(n)) \cup {GonePath, ChangedTestPath}}

NoText == <<>>

\* contents a source file may have: annotation markers and the identifiers it mentions
ContentChoices(n) ==
    { [markers |-> {}, words |-> {}, text |-> NoText],
      [markers |-> {"@Entity"}, words |-> {}, text |-> NoText],
      [markers |-> {"@Service", "@Entity"}, words |-> AllWords(n), text |-> NoText],
      [markers |-> {"@Repository"}, words |-> {<<"Alpha">>}, text |-> NoText] }

LoopContentChoices(n) ==
    { [markers |-> {}, words |-> {}, text |-> NoText],
      [markers |-> {"@Entity"}, words |-> {}, text |-> NoText],
      [markers |-> {}, words |-> AllWords(n), text |-> NoText] }

\* the text of a written file: who produced it, and from which test run's output
TextOf(gen, run) == <<[gen |-> gen, run |-> run]>>

ExistingTest == [markers |-> {}, words |-> {}, text |-> TextOf("existing", 0)]

\* an optional string (os.getenv without a default gives None when unset)
NoneStr == [isNone |-> TRUE, s |-> <<>>]
Str(s) == [isNone |-> FALSE, s |-> s]

AI_PREFIX == "ai-test-suite-"

PullRequestEnv ==
    [GITHUB_HEAD_REF |-> Str(<<"feature">>), GITHUB_REF_NAME |-> Str(<<"42", SEP, "merge">>)]

\* the CI contexts a run may start in: (GITHUB_HEAD_REF, GITHUB_REF_NAME)
Envs ==
    { PullRequestEnv,
      [GITHUB_HEAD_REF |-> Str(<<AI_PREFIX, "42">>), GITHUB_REF_NAME |-> Str(<<"43", SEP, "merge">>)],
      [GITHUB_HEAD_REF |-> NoneStr, GITHUB_REF_NAME |-> NoneStr] }

(* ------------------------------ state ---------------------------------- *)

VARIABLES
    files,              \* the work tree: path -> content
    env,                \* GITHUB_HEAD_REF, GITHUB_REF_NAME
    git_diff,           \* what `git diff --name-only` answers: return code and lines
    all_source_files,   \* self.all_source_files
    pc,                 \* position in execute()
    changed_files,
    all_java_files,
    manifest,
    idx,                \* position of the loop over changed_files
    test_plan,
    attempt,
    success,
    exit_code,
    output,
    heal_idx,           \* position of the loop over test_entries during a heal round
    heal_rounds,        \* history: heal rounds started
    test_runs,          \* history: outputs of the test executions
    gen_calls,          \* history: calls of the generation collaborator
    promote_calls,      \* history: calls of promote_to_pr
    error_branch_calls, \* history: calls of create_error_branch
    remote,             \* history: branches pushed, with the files they hold
    pull_requests,      \* history: integration requests opened
    log,                \* history: messages printed by exception handlers
    exit_status,        \* process exit status, -1 while running
    error               \* the uncaught exception that ended the run, "" if none

vars ==
    << files, env, git_diff, all_source_files, pc, changed_files, all_java_files,
       manifest, idx, test_plan, attempt, success, exit_code, output, heal_idx,
       heal_rounds, test_runs, gen_calls, promote_calls, error_branch_calls,
       remote, pull_requests, log, exit_status, error >>

NoOutput == [run |-> 0, exit |-> 0, summary |-> "none"]

EmptyManifest ==
    [summary |-> [total_files_changed |-> 0, risk_level |-> "LOW"], impact_analysis |-> <<>>]

EmptyPlan == [plan_id |-> "PR_TEST_PLAN_local", test_entries |-> <<>>]

\* the subsequences of s, order kept
RECURSIVE SubSeqs(_)
SubSeqs(s) ==
    IF s = <<>> THEN {<<>>}
    ELSE LET rest == SubSeqs(Tail(s)) IN rest \cup {<<Head(s)>> \o r : r \in rest}

\* listings the diff query may print for a work tree of n indexed files: in path
\* order, any of the indexed files, with at most one of the other changed files
DiffListings(n) ==
    LET idxs == SubSeqs(IndexPaths(n)) IN
    idxs \cup {<<ReadmePath>> \o l : l \in idxs}
         \cup {l \o <<GonePath>> : l \in idxs}
         \cup {l \o <<ChangedTestPath>> : l \in idxs}

DiffResults(n) ==
    {[rc |-> 128, out |-> <<>>]} \cup {[rc |-> 0, out |-> l] : l \in DiffListings(n)}

\* the test files present before the run
TestTrees(n) == SUBSET {get_test_path(p) : p \in Range(IndexPaths(n))}

MkTree(src, tests) ==
    [p \in Range(IndexPaths(Len(src))) \cup {ChangedTestPath} \cup tests |->
        IF p \in tests THEN ExistingTest
        ELSE IF p = ChangedTestPath THEN ExistingTest
        ELSE src[CHOOSE k \in 1..Len(src) : IndexPaths(Len(src))[k] = p]]

InitWith(n, contents, trees, envs) ==
    /\ \E src \in [1..n -> contents], tests \in trees : files = MkTree(src, tests)
    /\ env \in envs
    /\ git_diff \in DiffResults(n)
    /\ all_source_files = IndexPaths(n)
    /\ pc = "get_changed_files"
    /\ changed_files = <<>>
    /\ all_java_files = <<>>
    /\ manifest = EmptyManifest
    /\ idx = 0
    /\ test_plan = EmptyPlan
    /\ attempt = 0
    /\ success = FALSE
    /\ exit_code = 0
    /\ output = NoOutput
    /\ heal_idx = 0
    /\ heal_rounds = 0
    /\ test_runs = <<>>
    /\ gen_calls = <<>>
    /\ promote_calls = 0
    /\ error_branch_calls = 0
    /\ remote = {}
    /\ pull_requests = 0
    /\ log = <<>>
    /\ exit_status = -1
    /\ error = ""

Init == InitWith(LoopFiles, LoopContentChoices(LoopFiles), TestTrees(LoopFiles), Envs)

InitImpact == InitWith(NumFiles, ContentChoices(NumFiles), {{}}, {PullRequestEnv})

(* ------------------------- impact analysis ----------------------------- *)

\* run_git_command: stdout when the command succeeded, "" otherwise
run_git_command(result) == IF result.rc = 0 THEN result.out ELSE <<>>

\* str.split('\n') of the listing: the empty text splits into one empty line
SplitLines(out) == IF out = <<>> THEN << <<>> >> ELSE out

identify_component_type(fs, file_path) ==
    IF file_path \notin DOMAIN fs THEN "DELETED"
    ELSE LET content == fs[file_path].markers IN
         IF "@RestController" \in content \/ "@Controller" \in content THEN "CONTROLLER"
         ELSE IF "@Service" \in content THEN "SERVICE"
         ELSE IF "@Repository" \in content THEN "REPOSITORY"
         ELSE IF "@Entity" \in content THEN "ENTITY"
         ELSE IF Contains(<<"DTO">>, file_path) \/ Contains(<<"Dto">>, file_path) THEN "DTO"
         ELSE "JAVA_COMPONENT"

\* re.search(r'\b' + class_name + r'\b', text): the name occurs as a whole word
WordMatch(class_name, content) == class_name \in content.words

SkipNothing(class_name, f) == FALSE

SkipOwnName(class_name, f) == Contains(class_name, basename(f))

find_dependents(fs, index, class_name, original_path) ==
    SelectSeq(index, LAMBDA f :
        /\ ~SkipOwnName(class_name, f)
        /\ f # original_path
        /\ WordMatch(class_name, fs[f]))

DepStatusInverted(dep, changed) == IF dep \in Range(changed) THEN "IMPACTED" ELSE "ALSO_MODIFIED"

DepStatus(dep, changed) == IF dep \in Range(changed) THEN "ALSO_MODIFIED" ELSE "IMPACTED"

\* the cluster of one changed file; its line_ranges (hunk starts of a second diff query)
\* are data that no later step reads and are left out, as is the strategy description
ChangeEntry(fs, index, changed, java_files, file_path) ==
    LET class_name == get_class_name(file_path)
        dependents == find_dependents(fs, index, class_name, StrOfList(java_files))
    IN [source_file |-> [path |-> file_path,
                         type |-> identify_component_type(fs, file_path),
                         class_name |-> class_name],
        ripple_effect |-> [k \in 1..Len(dependents) |->
                             [path |-> dependents[k],
                              type |-> identify_component_type(fs, dependents[k]),
                              reason |-> class_name,
                              status |-> DepStatus(dependents[k], changed)]]]

\* execute(), steps 1 and 2: the changed java files, the walk of SRC_DIR, the empty manifest
GetChangedFiles ==
    /\ pc = "get_changed_files"
    /\ LET raw_changes == SplitLines(run_git_command(git_diff))
           changed == SelectSeq(raw_changes, LAMBDA f : EndsWith(f, JAVA))
       IN /\ changed_files' = changed
          /\ manifest' = [summary |-> [total_files_changed |-> Len(changed), risk_level |-> "LOW"],
                          impact_analysis |-> <<>>]
    /\ all_java_files' = all_source_files
    /\ idx' = 1
    /\ pc' = "analyze"
    /\ UNCHANGED << files, env, git_diff, all_source_files, test_plan, attempt, success,
                    exit_code, output, heal_idx, heal_rounds, test_runs, gen_calls,
                    promote_calls, error_branch_calls, remote, pull_requests, log,
                    exit_status, error >>

\* execute(), step 3: one iteration of the loop over changed_files
AnalyzeChange ==
    /\ pc = "analyze"
    /\ idx <= Len(changed_files)
    /\ manifest' = [manifest EXCEPT !.impact_analysis =
          Append(@, ChangeEntry(files, all_source_files, changed_files, all_java_files,
                                changed_files[idx]))]
    /\ idx' = idx + 1
    /\ UNCHANGED << files, env, git_diff, all_source_files, pc, changed_files, all_java_files,
                    test_plan, attempt, success, exit_code, output, heal_idx, heal_rounds,
                    test_runs, gen_calls, promote_calls, error_branch_calls, remote,
                    pull_requests, log, exit_status, error >>

AfterAnalysis ==
    /\ pc = "analyze"
    /\ idx > Len(changed_files)

RECURSIVE SumRipples(_)
\* sum(len(item["ripple_effect"]) for item in impact_analysis)
SumRipples(clusters) ==
    IF clusters = <<>> THEN 0
    ELSE Len(Head(clusters).ripple_effect) + SumRipples(Tail(clusters))

EntityChanged(clusters) ==
    \E k \in 1..Len(clusters) : clusters[k].source_file.type = "ENTITY"

WideRippleInclusive(total_ripples) == total_ripples >= RIPPLE_THRESHOLD

WideRipple(total_ripples) == total_ripples > RIPPLE_THRESHOLD

\* execute(), step 4: the risk level, given the level the manifest was created with
risk_level(clusters, initial) ==
    LET total_ripples == SumRipples(clusters) IN
    IF EntityChanged(clusters) \/ WideRipple(total_ripples) THEN "HIGH"
    ELSE IF total_ripples > 0 THEN "MEDIUM"
    ELSE initial

JsonFile(name) == <<name>>

Artifact(kind) == [markers |-> {}, words |-> {}, text |-> TextOf(kind, 0)]

\* files' with path p (over)written
WriteFile(fs, p, content) == (p :> content) @@ fs

\* execute(), step 4: score the manifest and write impact.json
CalculateRisk ==
    /\ AfterAnalysis
    /\ manifest' = [manifest EXCEPT !.summary.risk_level =
                       risk_level(manifest.impact_analysis, @)]
    /\ files' = WriteFile(files, JsonFile("impact.json"), Artifact("manifest"))
    /\ pc' = "plan"
    /\ UNCHANGED << env, git_diff, all_source_files, changed_files, all_java_files, idx,
                    test_plan, attempt, success, exit_code, output, heal_idx, heal_rounds,
                    test_runs, gen_calls, promote_calls, error_branch_calls, remote,
                    pull_requests, log, exit_status, error >>

(* ----------------------------- test plan ------------------------------- *)

get_test_strategy(comp_type) ==
    CASE comp_type = "CONTROLLER" ->
            [type |-> "controller", frameworks |-> <<"JUnit 5", "Spring MockMvc">>]
      [] comp_type = "SERVICE" ->
            [type |-> "service", frameworks |-> <<"JUnit 5", "Mockito">>]
      [] comp_type = "REPOSITORY" ->
            [type |-> "repository", frameworks |-> <<"JUnit 5", "DataJpaTest", "Testcontainers">>]
      [] comp_type = "DTO" ->
            [type |-> "dto", frameworks |-> <<"JUnit 5", "AssertJ">>]
      [] comp_type = "CONFIGURATION" ->
            [type |-> "security", frameworks |-> <<"Spring Security Test">>]
      [] OTHER ->
            [type |-> "general", frameworks |-> <<"JUnit 5">>]

\* all_targets of one cluster: the source first, then its ripples
all_targets(cluster) ==
    << [path |-> cluster.source_file.path, type |-> cluster.source_file.type,
        impact_kind |-> "DIRECT"] >>
    \o [k \in 1..Len(cluster.ripple_effect) |->
          [path |-> cluster.ripple_effect[k].path, type |-> cluster.ripple_effect[k].type,
           impact_kind |-> "RIPPLE"]]

RECURSIVE TargetsLastClusterFirst(_)
TargetsLastClusterFirst(clusters) ==
    IF clusters = <<>> THEN <<>>
    ELSE TargetsLastClusterFirst(Tail(clusters)) \o all_targets(Head(clusters))

RECURSIVE Targets(_)
\* the targets of all clusters, in the order the nested loops visit them
Targets(clusters) ==
    IF clusters = <<>> THEN <<>> ELSE all_targets(Head(clusters)) \o Targets(Tail(clusters))

NeverSeen(path, seen_files) == FALSE

AlreadySeen(path, seen_files) == path \in seen_files

PlanEntry(fs, t) ==
    LET strategy == get_test_strategy(t.type)
        test_file == get_test_path(t.path)
    IN [component_name |-> Replace(basename(t.path), JAVA, <<>>),
        source_path |-> t.path,
        impact_origin |-> t.impact_kind,
        test_type |-> strategy.type,
        frameworks |-> strategy.frameworks,
        target_test_file |-> test_file,
        action |-> IF test_file \in DOMAIN fs THEN "EXTEND" ELSE "CREATE",
        coverage_goal |-> IF t.impact_kind = "DIRECT" THEN "High" ELSE "Regression"]

RECURSIVE PlanEntries(_, _, _)
\* the loop over the targets with its seen_files set
PlanEntries(fs, targets, seen_files) ==
    IF targets = <<>> THEN <<>>
    ELSE LET t == Head(targets) IN
         IF AlreadySeen(t.path, seen_files)
         THEN PlanEntries(fs, Tail(targets), seen_files)
         ELSE <<PlanEntry(fs, t)>> \o PlanEntries(fs, Tail(targets), seen_files \cup {t.path})

generate_test_plan(fs, impact_manifest) ==
    [plan_id |-> "PR_TEST_PLAN_local",
     test_entries |-> PlanEntries(fs, Targets(impact_manifest.impact_analysis), {})]

\* execute(), step 5: derive the plan and write test-plan.json
PlanTest ==
    /\ pc = "plan"
    /\ test_plan' = generate_test_plan(files, manifest)
    /\ files' = WriteFile(files, JsonFile("test-plan.json"), Artifact("plan"))
    /\ pc' = "synthesize"
    /\ UNCHANGED << env, git_diff, all_source_files, changed_files, all_java_files, manifest,
                    idx, attempt, success, exit_code, output, heal_idx, heal_rounds,
                    test_runs, gen_calls, promote_calls, error_branch_calls, remote,
                    pull_requests, log, exit_status, error >>

NextImpact ==
    \/ GetChangedFiles
    \/ AnalyzeChange
    \/ CalculateRisk
    \/ PlanTest

SpecImpact == InitImpact /\ [][NextImpact]_vars

(* ------------------- the analysis of nested source trees ---------------- *)

\* deepest nesting of package directories below SRC_DIR
PathDepth == 1

\* most files one diff listing names
MaxChanged == 2

\* directory names a package path may hold; a directory may be named like a root
PackageSegments == <<"pkg", SRC_DIR, TEST_DIR>>

RECURSIVE PackageDirs(_)
\* the directory paths of exactly d segments
PackageDirs(d) ==
    IF d = 0 THEN << <<>> >>
    ELSE LET deeper == PackageDirs(d - 1)
             n == Len(deeper)
         IN [k \in 1..(Len(PackageSegments) * n) |->
                <<PackageSegments[((k - 1) \div n) + 1], SEP>> \o deeper[((k - 1) % n) + 1]]

RECURSIVE PackageDirsUpTo(_)
PackageDirsUpTo(d) ==
    IF d = 0 THEN PackageDirs(0) ELSE PackageDirsUpTo(d - 1) \o PackageDirs(d)

NestedNames == << <<"Alpha">>, <<"Omega">> >>

\* the java files rglob finds in a tree with package directories below SRC_DIR
NestedIndex ==
    LET dirs == PackageDirsUpTo(PathDepth)
        n == Len(NestedNames)
    IN [k \in 1..(Len(dirs) * n) |->
           <<SRC_DIR, SEP>> \o dirs[((k - 1) \div n) + 1] \o NestedNames[((k - 1) % n) + 1]
                            \o <<JAVA>>]

RECURSIVE Picks(_, _, _)
\* the listings of at most m files of s from position lo on, in the order of s
Picks(s, lo, m) ==
    IF m = 0 THEN {<<>>}
    ELSE {<<>>} \cup UNION {{<<s[i]>> \o r : r \in Picks(s, i + 1, m - 1)} : i \in lo..Len(s)}

PlainSource == [markers |-> {}, words |-> {}, text |-> NoText]

InitPaths ==
    /\ files = [p \in Range(NestedIndex) |-> PlainSource]
    /\ env = PullRequestEnv
    /\ git_diff \in {[rc |-> 0, out |-> l] : l \in Picks(NestedIndex, 1, MaxChanged)}
    /\ all_source_files = NestedIndex
    /\ pc = "get_changed_files"
    /\ changed_files = <<>>
    /\ all_java_files = <<>>
    /\ manifest = EmptyManifest
    /\ idx = 0
    /\ test_plan = EmptyPlan
    /\ attempt = 0
    /\ success = FALSE
    /\ exit_code = 0
    /\ output = NoOutput
    /\ heal_idx = 0
    /\ heal_rounds = 0
    /\ test_runs = <<>>
    /\ gen_calls = <<>>
    /\ promote_calls = 0
    /\ error_branch_calls = 0
    /\ remote = {}
    /\ pull_requests = 0
    /\ log = <<>>
    /\ exit_status = -1
    /\ error = ""

SpecPaths == InitPaths /\ [][NextImpact]_vars

(* ------------------------ generation and tests ------------------------- *)

CrashSwallowed(name) ==
    /\ pc' = "loop"
    /\ UNCHANGED << error, exit_status >>

\* an uncaught exception ends the process with a failure status
Crash(name) ==
    /\ pc' = "crashed"
    /\ error' = name
    /\ exit_status' = 1

GenCall(kind, entry, error_log, raised) ==
    [kind |-> kind, target |-> entry.target_test_file, error_log |-> error_log,
     raised |-> raised]

\* the test file as synthesize_and_save leaves it
SynthesizedFile(fs, entry) ==
    IF entry.action = "CREATE"
    THEN [markers |-> {}, words |-> {}, text |-> TextOf("synthesize", 0)]
    ELSE [fs[entry.target_test_file] EXCEPT !.text = @ \o TextOf("synthesize", 0)]

\* the entries handed to the initial generation: only the first entry of the plan
InitialEntryIndex == 1

\* execute(), lines 467-469: entry = test_entries[0]; synthesize_and_save(entry)
InitialGeneration ==
    /\ pc = "synthesize"
    /\ IF Len(test_plan.test_entries) < InitialEntryIndex
       THEN /\ Crash("IndexError")
            /\ UNCHANGED << files, gen_calls >>
       ELSE LET entry == test_plan.test_entries[InitialEntryIndex] IN
            IF entry.source_path \notin DOMAIN files
            THEN /\ Crash("FileNotFoundError")
                 /\ UNCHANGED << files, gen_calls >>
            ELSE \E raised \in BOOLEAN :
                   /\ gen_calls' = Append(gen_calls, GenCall("synthesize", entry, NoOutput, raised))
                   /\ IF raised
                      THEN /\ Crash("GenerationError")
                           /\ UNCHANGED files
                      ELSE /\ files' = WriteFile(files, entry.target_test_file,
                                                 SynthesizedFile(files, entry))
                           /\ pc' = "loop"
                           /\ UNCHANGED << error, exit_status >>
    /\ UNCHANGED << env, git_diff, all_source_files, changed_files, all_java_files, manifest,
                    idx, test_plan, attempt, success, exit_code, output, heal_idx,
                    heal_rounds, test_runs, promote_calls, error_branch_calls, remote,
                    pull_requests, log >>

\* what the build may print and return for the n-th test execution
TestResults(n) ==
    {[run |-> n, exit |-> 0, summary |-> sm] :
        sm \in {"results", "tests_run", "none", "overlong"}}
    \cup {[run |-> n, exit |-> 1, summary |-> "results"]}

LoopConditionInclusive(n) == n <= max_retries

\* while attempt < max_retries
LoopCondition(n) == n < max_retries

\* execute(), lines 477-485: run the tests; a zero exit status leaves the loop
RunTests ==
    /\ pc = "loop"
    /\ LoopCondition(attempt)
    /\ \E result \in TestResults(Len(test_runs) + 1) :
         /\ exit_code' = result.exit
         /\ output' = result
         /\ test_runs' = Append(test_runs, result)
         /\ IF result.exit = 0
            THEN /\ success' = TRUE
                 /\ pc' = "finalize"
                 /\ UNCHANGED << heal_idx, heal_rounds >>
            ELSE /\ pc' = "heal"
                 /\ heal_idx' = 1
                 /\ heal_rounds' = heal_rounds + 1
                 /\ UNCHANGED success
    /\ UNCHANGED << files, env, git_diff, all_source_files, changed_files, all_java_files,
                    manifest, idx, test_plan, attempt, gen_calls, promote_calls,
                    error_branch_calls, remote, pull_requests, log, exit_status, error >>

\* the loop ends because the attempts are used up
LoopExit ==
    /\ pc = "loop"
    /\ ~LoopCondition(attempt)
    /\ pc' = "finalize"
    /\ UNCHANGED << files, env, git_diff, all_source_files, changed_files, all_java_files,
                    manifest, idx, test_plan, attempt, success, exit_code, output, heal_idx,
                    heal_rounds, test_runs, gen_calls, promote_calls, error_branch_calls,
                    remote, pull_requests, log, exit_status, error >>

\* self_heal(entry, error_log): one call of the loop at lines 486-487
SelfHeal ==
    /\ pc = "heal"
    /\ heal_idx <= Len(test_plan.test_entries)
    /\ LET entry == test_plan.test_entries[heal_idx] IN
       IF entry.source_path \notin DOMAIN files \/ entry.target_test_file \notin DOMAIN files
       THEN /\ Crash("FileNotFoundError")
            /\ UNCHANGED << files, gen_calls, heal_idx >>
       ELSE \E raised \in BOOLEAN :
              /\ gen_calls' = Append(gen_calls, GenCall("heal", entry, output, raised))
              /\ IF raised
                 THEN /\ Crash("GenerationError")
                      /\ UNCHANGED << files, heal_idx >>
                 ELSE /\ files' = WriteFile(files, entry.target_test_file,
                            [markers |-> {}, words |-> {}, text |-> TextOf("heal", output.run)])
                      /\ heal_idx' = heal_idx + 1
                      /\ UNCHANGED << pc, error, exit_status >>
    /\ UNCHANGED << env, git_diff, all_source_files, changed_files, all_java_files, manifest,
                    idx, test_plan, attempt, success, exit_code, output, heal_rounds,
                    test_runs, promote_calls, error_branch_calls, remote, pull_requests, log >>

\* line 488: attempt += 1 after the heal loop
EndHealRound ==
    /\ pc = "heal"
    /\ heal_idx > Len(test_plan.test_entries)
    /\ attempt' = attempt + 1
    /\ pc' = "loop"
    /\ UNCHANGED << files, env, git_diff, all_source_files, changed_files, all_java_files,
                    manifest, idx, test_plan, success, exit_code, output, heal_idx,
                    heal_rounds, test_runs, gen_calls, promote_calls, error_branch_calls,
                    remote, pull_requests, log, exit_status, error >>

(* ---------------------------- finalization ----------------------------- *)

\* int(text) of a digit string beyond the interpreter's conversion limit raises ValueError;
\* otherwise the summary of the "Results:" block, of the last "Tests run" line, or the default
parse_test_results(stdout) ==
    CASE stdout.summary = "overlong" -> [raised |-> TRUE, summary |-> "none"]
      [] stdout.summary = "results" -> [raised |-> FALSE, summary |-> "aggregate"]
      [] stdout.summary = "tests_run" -> [raised |-> FALSE, summary |-> "last"]
      [] OTHER -> [raised |-> FALSE, summary |-> "default"]

GuardOnRefName(e) ==
    /\ ~e.GITHUB_REF_NAME.isNone
    /\ e.GITHUB_REF_NAME.s # <<>>
    /\ StartsWith(e.GITHUB_REF_NAME.s, <<AI_PREFIX>>)

\* the safety check of promote_to_pr and create_error_branch
OnGeneratedBranch(e) ==
    /\ ~e.GITHUB_HEAD_REF.isNone
    /\ e.GITHUB_HEAD_REF.s # <<>>
    /\ StartsWith(e.GITHUB_HEAD_REF.s, <<AI_PREFIX>>)

\* GITHUB_REF_NAME.split("/")[0]
orig_pr_id(ref) ==
    IF \E k \in 1..Len(ref) : ref[k] = SEP
    THEN SubSeq(ref, 1, (CHOOSE k \in 1..Len(ref) : ref[k] = SEP /\ \A j \in 1..(k - 1) : ref[j] # SEP) - 1)
    ELSE ref

\* git add src/test/java/ impact.json test-plan.json
Staged(fs) ==
    {p \in DOMAIN fs :
        \/ StartsWith(p, <<TEST_DIR, SEP>>)
        \/ p \in {JsonFile("impact.json"), JsonFile("test-plan.json")}}

Push(branch, fs) == [branch |-> branch, paths |-> Staged(fs)]

\* what promote_to_pr does: nothing on a generated branch, AttributeError without a ref name,
\* otherwise branch, commit, push and open the request
promote_to_pr(e, fs) ==
    IF OnGeneratedBranch(e) THEN [raised |-> FALSE, pushes |-> {}, requests |-> 0]
    ELSE IF e.GITHUB_REF_NAME.isNone THEN [raised |-> TRUE, pushes |-> {}, requests |-> 0]
    ELSE [raised |-> FALSE,
          pushes |-> {Push(<<AI_PREFIX>> \o orig_pr_id(e.GITHUB_REF_NAME.s), fs)},
          requests |-> 1]

create_error_branch(e, fs) ==
    IF OnGeneratedBranch(e) THEN [raised |-> FALSE, pushes |-> {}]
    ELSE IF e.GITHUB_REF_NAME.isNone THEN [raised |-> TRUE, pushes |-> {}]
    ELSE [raised |-> FALSE,
          pushes |-> {Push(<<AI_PREFIX, "error">> \o orig_pr_id(e.GITHUB_REF_NAME.s), fs)}]

\* lines 491-496: try: parse the summary, promote; except: print
FinalizeSuccess ==
    /\ pc = "finalize"
    /\ success
    /\ LET parsed == parse_test_results(output) IN
       IF parsed.raised
       THEN /\ log' = Append(log, "Error in passing test results")
            /\ UNCHANGED << promote_calls, remote, pull_requests >>
       ELSE LET done == promote_to_pr(env, files) IN
            /\ promote_calls' = promote_calls + 1
            /\ remote' = remote \cup done.pushes
            /\ pull_requests' = pull_requests + done.requests
            /\ log' = IF done.raised THEN Append(log, "Error in passing test results") ELSE log
    /\ pc' = "done"
    /\ exit_status' = 0
    /\ UNCHANGED << files, env, git_diff, all_source_files, changed_files, all_java_files,
                    manifest, idx, test_plan, attempt, success, exit_code, output, heal_idx,
                    heal_rounds, test_runs, gen_calls, error_branch_calls, error >>

PublishErrorBranchUnguarded ==
    /\ pc = "finalize"
    /\ error_branch_calls' = error_branch_calls + 1
    /\ LET done == create_error_branch(env, files) IN
       /\ remote' = remote \cup done.pushes
       /\ IF done.raised
          THEN Crash("AttributeError")
          ELSE /\ pc' = "diagnostics"
               /\ UNCHANGED << error, exit_status >>
    /\ UNCHANGED << files, env, git_diff, all_source_files, changed_files, all_java_files,
                    manifest, idx, test_plan, attempt, success, exit_code, output, heal_idx,
                    heal_rounds, test_runs, gen_calls, promote_calls, pull_requests, log >>

\* lines 499-501: the healing failed, publish the error branch
PublishErrorBranch ==
    /\ pc = "finalize"
    /\ ~success
    /\ error_branch_calls' = error_branch_calls + 1
    /\ LET done == create_error_branch(env, files) IN
       /\ remote' = remote \cup done.pushes
       /\ IF done.raised
          THEN Crash("AttributeError")
          ELSE /\ pc' = "diagnostics"
               /\ UNCHANGED << error, exit_status >>
    /\ UNCHANGED << files, env, git_diff, all_source_files, changed_files, all_java_files,
                    manifest, idx, test_plan, attempt, success, exit_code, output, heal_idx,
                    heal_rounds, test_runs, gen_calls, promote_calls, pull_requests, log >>

DiagnosticsLog == <<"failure_diagnostics.log">>

\* lines 502-504: write failure_diagnostics.log, sys.exit(1)
WriteDiagnostics ==
    /\ pc = "diagnostics"
    /\ files' = WriteFile(files, DiagnosticsLog,
                          [markers |-> {}, words |-> {}, text |-> TextOf("log", output.run)])
    /\ pc' = "done"
    /\ exit_status' = 1
    /\ UNCHANGED << env, git_diff, all_source_files, changed_files, all_java_files, manifest,
                    idx, test_plan, attempt, success, exit_code, output, heal_idx,
                    heal_rounds, test_runs, gen_calls, promote_calls, error_branch_calls,
                    remote, pull_requests, log, error >>

Next ==
    \/ GetChangedFiles
    \/ AnalyzeChange
    \/ CalculateRisk
    \/ PlanTest
    \/ InitialGeneration
    \/ RunTests
    \/ LoopExit
    \/ SelfHeal
    \/ EndHealRound
    \/ FinalizeSuccess
    \/ PublishErrorBranch
    \/ WriteDiagnostics

Spec == Init /\ [][Next]_vars

(* ------------------------------ claims --------------------------------- *)

Terminated == exit_status # -1

\* the loop was left without a passing test execution: the EXHAUSTED state
Exhausted ==
    /\ ~success
    /\ ~LoopCondition(attempt)
    /\ pc \in {"finalize", "diagnostics", "done", "crashed"}

Entries == test_plan.test_entries

Clusters == manifest.impact_analysis

HealCalls == SelectSeq(gen_calls, LAMBDA c : c.kind = "heal")

GenerationFailed == \E k \in 1..Len(gen_calls) : gen_calls[k].raised

AllRunsFailed ==
    /\ test_runs # <<>>
    /\ \A k \in 1..Len(test_runs) : test_runs[k].exit # 0

\* C1: whatever the test executions return, a heal round is started at most
\* max_retries times in a run.
C1_HealBounded == heal_rounds <= max_retries

\* C1 witness: a run that ended EXHAUSTED after max_retries heal rounds
C1_Witness == pc = "done" /\ Exhausted /\ heal_rounds = max_retries

\* C2: when B is changed, follows changed A in the manifest and is in A's ripple
\* list as ALSO_MODIFIED, the plan has an entry for B with impact_origin DIRECT.
C2_AlsoModifiedIsDirect ==
    pc = "synthesize" =>
        \A i \in 1..Len(Clusters), j \in 1..Len(Clusters) :
            (/\ i < j
             /\ \E r \in Range(Clusters[i].ripple_effect) :
                    /\ r.path = Clusters[j].source_file.path
                    /\ r.status = "ALSO_MODIFIED")
            => \E e \in Range(Entries) :
                    /\ e.source_path = Clusters[j].source_file.path
                    /\ e.impact_origin = "DIRECT"

\* C3: with an empty or failed diff the changed-file set is empty, the manifest has
\* no cluster and counts zero changed files, and no later stage raises an error.
C3_EmptyDiffNoError ==
    (git_diff.rc # 0 \/ git_diff.out = <<>>) =>
        /\ changed_files = <<>>
        /\ Clusters = <<>>
        /\ manifest.summary.total_files_changed = 0
        /\ error = ""

\* C4: when the tests passed and parsing their summary fails, the failure is logged
\* and promote_to_pr is still called.
C4_ParseFailureStillPromotes ==
    (pc = "done" /\ success /\ parse_test_results(output).raised) =>
        /\ log # <<>>
        /\ promote_calls = 1

\* C5: a run that ended EXHAUSTED and failed has written failure_diagnostics.log
\* with the last failing console output, also when the error-branch routine fails.
C5_DiagnosticsBeforeFailure ==
    (Terminated /\ Exhausted) =>
        /\ exit_status # 0
        /\ DiagnosticsLog \in DOMAIN files
        /\ files[DiagnosticsLog].text = TextOf("log", output.run)

\* C6: when every test execution fails (and the generation collaborator never does),
\* the run ends EXHAUSTED with a non-zero exit status and promote_to_pr is never called.
C6_AllFailuresExhaust ==
    (Terminated /\ AllRunsFailed /\ ~GenerationFailed) =>
        /\ Exhausted
        /\ exit_status # 0
        /\ promote_calls = 0

\* C7: when the first test execution returns 0, no heal round is started, self_heal
\* is called for no entry, and promote_to_pr is called exactly once.
C7_FirstPassPromotesOnce ==
    (Terminated /\ test_runs # <<>> /\ test_runs[1].exit = 0) =>
        /\ heal_rounds = 0
        /\ HealCalls = <<>>
        /\ promote_calls = 1

\* C8: every heal round (in a run where the generation collaborator never fails)
\* calls the collaborator exactly once per plan entry, in plan order, with the output
\* of the failing execution that started the round, and overwrites each target file.
C8_HealCoversEveryEntry ==
    (heal_rounds > 0 /\ pc # "heal" /\ ~GenerationFailed) =>
        /\ Len(HealCalls) = heal_rounds * Len(Entries)
        /\ \A r \in 1..heal_rounds, k \in 1..Len(Entries) :
              HealCalls[(r - 1) * Len(Entries) + k] =
                  GenCall("heal", Entries[k], test_runs[r], FALSE)
        /\ \A k \in 1..Len(Entries) :
              /\ Entries[k].target_test_file \in DOMAIN files
              /\ files[Entries[k].target_test_file].text = TextOf("heal", heal_rounds)

\* the number of ripple units of the manifest, counted unit by unit
RippleUnits ==
    Cardinality({<<i, k>> \in (1..Len(Clusters)) \X (0..(NumFiles + 1)) :
                    k \in 1..Len(Clusters[i].ripple_effect)})

NoEntityChanged == \A i \in 1..Len(Clusters) : Clusters[i].source_file.type # "ENTITY"

\* C9: the risk level written to the manifest is HIGH when a changed file is an
\* ENTITY; otherwise HIGH when the ripple units number more than 10, MEDIUM when
\* they number 1 to 10, LOW when there is none.
C9_RiskRule ==
    pc \in {"plan", "synthesize"} =>
        manifest.summary.risk_level =
            IF ~NoEntityChanged THEN "HIGH"
            ELSE IF RippleUnits > 10 THEN "HIGH"
            ELSE IF RippleUnits >= 1 THEN "MEDIUM"
            ELSE "LOW"

\* C9 witness: no ENTITY changed and exactly 10 ripple units, scored MEDIUM
C9_Witness ==
    /\ pc = "plan"
    /\ NoEntityChanged
    /\ RippleUnits = 10
    /\ manifest.summary.risk_level = "MEDIUM"

\* the places of the manifest (cluster, position; 0 is the source) that hold path p
Occurrences(p) ==
    {<<i, k>> \in (1..Len(Clusters)) \X (0..(NumFiles + 1)) :
        \/ k = 0 /\ Clusters[i].source_file.path = p
        \/ k \in 1..Len(Clusters[i].ripple_effect) /\ Clusters[i].ripple_effect[k].path = p}

\* C10: the plan holds at most one entry per source_path.
C10_UniqueSourcePath ==
    \A i \in 1..Len(Entries), j \in 1..Len(Entries) :
        Entries[i].source_path = Entries[j].source_path => i = j

\* C10 witness: a plan for a manifest in which one path is a source and a ripple
\* unit, and another is a ripple unit of several clusters
C10_Witness ==
    /\ pc = "synthesize"
    /\ \E e \in Range(Entries) :
          /\ Cardinality(Occurrences(e.source_path)) > 2
          /\ \E o \in Occurrences(e.source_path) : o[2] = 0
    /\ \E e \in Range(Entries) :
          /\ Cardinality(Occurrences(e.source_path)) > 1
          /\ \A o \in Occurrences(e.source_path) : o[2] > 0

\* occurrences in walking order: clusters in manifest order, each cluster's source
\* (position 0) before its ripple units
Before(a, b) == a[1] < b[1] \/ (a[1] = b[1] /\ a[2] < b[2])

FirstOccurrence(p) ==
    CHOOSE o \in Occurrences(p) : \A q \in Occurrences(p) : q = o \/ Before(o, q)

\* C11: a path first met as the source of a cluster has, in the plan, entries with
\* impact_origin DIRECT and coverage_goal High only, also when it is a ripple unit of
\* a later cluster.
C11_FirstDirectStaysDirect ==
    pc = "synthesize" =>
        \A i \in 1..Len(Clusters) :
            LET p == Clusters[i].source_file.path IN
            FirstOccurrence(p)[2] = 0 =>
                /\ \E e \in Range(Entries) : e.source_path = p
                /\ \A e \in Range(Entries) :
                      e.source_path = p =>
                          e.impact_origin = "DIRECT" /\ e.coverage_goal = "High"

\* C11 witness: a planned path first met as a source that is a ripple unit of a later cluster
C11_Witness ==
    /\ pc = "synthesize"
    /\ \E e \in Range(Entries) :
          /\ FirstOccurrence(e.source_path)[2] = 0
          /\ \E o \in Occurrences(e.source_path) :
                o[2] > 0 /\ o[1] > FirstOccurrence(e.source_path)[1]

HeadRefIsGenerated ==
    /\ ~env.GITHUB_HEAD_REF.isNone
    /\ Len(env.GITHUB_HEAD_REF.s) > 0
    /\ env.GITHUB_HEAD_REF.s[1] = "ai-test-suite-"

\* C12: when the head branch name starts with "ai-test-suite-", no branch is pushed
\* and no integration request is opened, whether the run passes or exhausts.
C12_GeneratedBranchNoOp ==
    HeadRefIsGenerated => (remote = {} /\ pull_requests = 0)

\* C12 witness: promote_to_pr was called on a generated branch and the run is over
C12_Witness == HeadRefIsGenerated /\ pc = "done" /\ promote_calls = 1

ErrorPushes == {b \in remote : Len(b.branch) > 1 /\ b.branch[2] = "error"}

\* C13: a run that ended EXHAUSTED off a generated branch has pushed an error branch
\* that holds failure_diagnostics.log with the test files, the manifest and the plan,
\* and has opened no integration request.
C13_ErrorBranchHoldsDiagnostics ==
    (pc = "done" /\ Exhausted /\ ~HeadRefIsGenerated) =>
        /\ pull_requests = 0
        /\ \E b \in ErrorPushes :
              /\ DiagnosticsLog \in b.paths
              /\ JsonFile("impact.json") \in b.paths
              /\ JsonFile("test-plan.json") \in b.paths
              /\ \A e \in Range(Entries) : e.target_test_file \in b.paths

\* C14: once a generation call has raised, the run is over with that error: the
\* failed call is the last generation call, no test execution follows the round it
\* failed in, and neither promote_to_pr nor create_error_branch is called.
C14_GenerationErrorAborts ==
    GenerationFailed =>
        /\ pc = "crashed"
        /\ error = "GenerationError"
        /\ exit_status = 1
        /\ \A k \in 1..Len(gen_calls) : gen_calls[k].raised <=> k = Len(gen_calls)
        /\ Len(test_runs) = heal_rounds
        /\ promote_calls = 0
        /\ error_branch_calls = 0
        /\ remote = {}

\* C14 witness: a heal call of the second round raised
C14_Witness ==
    /\ GenerationFailed
    /\ heal_rounds = max_retries
    /\ gen_calls[Len(gen_calls)].kind = "heal"

\* C15: no ripple list holds the path of its cluster's changed file, nor a path whose
\* basename contains the changed file's class name.
C15_DependentsExcludeOwnName ==
    \A i \in 1..Len(Clusters) :
        \A r \in Range(Clusters[i].ripple_effect) :
            /\ r.path # Clusters[i].source_file.path
            /\ ~Contains(Clusters[i].source_file.class_name, basename(r.path))

\* C15 witness: a cluster with ripple units whose changed file mentions its own class
\* name, as does another file whose name contains that class name
C15_Witness ==
    \E i \in 1..Len(Clusters) :
        LET src == Clusters[i].source_file IN
        /\ Clusters[i].ripple_effect # <<>>
        /\ src.path \in Range(all_source_files)
        /\ src.class_name \in files[src.path].words
        /\ \E f \in Range(all_source_files) :
              /\ f # src.path
              /\ Contains(src.class_name, basename(f))
              /\ src.class_name \in files[f].words

\* C16: two plan entries for distinct source paths under src/main/java have distinct
\* target test files, as a reversible path mapping requires.
C16_TestPathInjective ==
    pc = "synthesize" =>
        \A e1, e2 \in Range(Entries) :
            (/\ StartsWith(e1.source_path, <<SRC_DIR, SEP>>)
             /\ StartsWith(e2.source_path, <<SRC_DIR, SEP>>)
             /\ e1.source_path # e2.source_path)
            => e1.target_test_file # e2.target_test_file

\* C17: a run that ended without an uncaught exception has executed the tests after
\* each of its heal rounds, the last one included, and each round raised the attempt
\* counter by one.
C17_EveryHealRoundIsRetested ==
    (Terminated /\ error = "") =>
        /\ attempt = heal_rounds
        /\ Len(test_runs) = heal_rounds + 1

\* C18: a changed file that does not exist is typed DELETED, has no plan entry and is
\* the target of no generation or heal call.
C18_DeletedIsExcluded ==
    \A i \in 1..Len(Clusters) :
        LET src == Clusters[i].source_file IN
        src.path \notin DOMAIN files =>
            /\ src.type = "DELETED"
            /\ \A e \in Range(Entries) : e.source_path # src.path
            /\ \A k \in 1..Len(gen_calls) : gen_calls[k].target # get_test_path(src.path)

\* C19: every changed file that execute() keeps ends in ".java" and starts with
\* src/main/java, so no cluster source and no DIRECT plan entry lies outside it.
C19_ChangedFilesUnderSourceRoot ==
    /\ \A f \in Range(changed_files) : EndsWith(f, JAVA) /\ StartsWith(f, <<SRC_DIR, SEP>>)
    /\ \A i \in 1..Len(Clusters) : StartsWith(Clusters[i].source_file.path, <<SRC_DIR, SEP>>)
    /\ \A e \in Range(Entries) :
          e.impact_origin = "DIRECT" => StartsWith(e.source_path, <<SRC_DIR, SEP>>)

References(f, class_name) ==
    /\ class_name \in files[f].words
    /\ ~Contains(class_name, basename(f))

\* C20: after the analysis there is one cluster per changed file, in order; a ripple
\* unit is ALSO_MODIFIED when its path is a changed file and IMPACTED otherwise; and
\* an indexed file that references the class of a changed file is a ripple unit of
\* that file's cluster, for each changed file it references.
C20_ClustersPerChangedFile ==
    pc \in {"plan", "synthesize"} =>
        /\ Len(Clusters) = Len(changed_files)
        /\ \A i \in 1..Len(Clusters) :
              /\ Clusters[i].source_file.path = changed_files[i]
              /\ \A r \in Range(Clusters[i].ripple_effect) :
                    r.status = (IF r.path \in Range(changed_files)
                                THEN "ALSO_MODIFIED" ELSE "IMPACTED")
              /\ \A f \in Range(all_source_files) :
                    References(f, Clusters[i].source_file.class_name) <=>
                        \E r \in Range(Clusters[i].ripple_effect) : r.path = f

\* C20 witness: a file that is a ripple unit of two clusters, IMPACTED in both, next
\* to a ripple unit that is ALSO_MODIFIED
C20_Witness ==
    /\ pc = "plan"
    /\ \E i, j \in 1..Len(Clusters) :
          /\ i # j
          /\ \E r \in Range(Clusters[i].ripple_effect) :
                /\ r.status = "IMPACTED"
                /\ \E q \in Range(Clusters[j].ripple_effect) : q.path = r.path
    /\ \E i \in 1..Len(Clusters) :
          \E r \in Range(Clusters[i].ripple_effect) : r.status = "ALSO_MODIFIED"

\* C21: promote_to_pr is called at most once and only when the latest test execution
\* returned 0; create_error_branch is called at most once and only when no test
\* execution returned 0; the two are never both called in one run.
C21_PublishAtMostOnce ==
    /\ promote_calls <= 1
    /\ error_branch_calls <= 1
    /\ ~(promote_calls > 0 /\ error_branch_calls > 0)
    /\ promote_calls > 0 => (test_runs # <<>> /\ test_runs[Len(test_runs)].exit = 0)
    /\ error_branch_calls > 0 => AllRunsFailed

\* C21 witness: promote_to_pr was called after a failed execution, a heal round and a
\* passing execution
C21_Witness ==
    /\ pc = "done"
    /\ promote_calls = 1
    /\ Len(test_runs) > 1
    /\ test_runs[1].exit # 0

====
